---- MODULE Spec2Model ----
(***************************************************************************)
(* Model of my-app/app/page.tsx: the todoReducer, the TodoPage component   *)
(* (its state hooks, its two effects, its event handlers) and the          *)
(* localStorage entry 'todos'.                                             *)
(*                                                                         *)
(* JavaScript values are tagged records; a string is the sequence of its   *)
(* characters; an object is the sequence of its own properties in          *)
(* property order.  The stored text is kept as the sequence of its JSON    *)
(* tokens, and JSON.parse / JSON.stringify are a parser and a printer over *)
(* those tokens.                                                           *)
(***************************************************************************)
EXTENDS Integers, Sequences, FiniteSets, TLC

VARIABLES
    storage,      \* the localStorage entry 'todos': absent, or its text
    todos,        \* useReducer state (page.tsx:42)
    inputValue,   \* useState('') (page.tsx:43)
    editingId,    \* useState<string | null>(null) (page.tsx:44)
    editText,     \* useState('') (page.tsx:45)
    isMounted,    \* useState(false) (page.tsx:46), as of the committed render
    queue,        \* reducer actions dispatched and not yet reduced by a render
    mountedNext,  \* the value setIsMounted has queued for the next render
    phase,        \* where the session stands in React's render/effect cycle
    uuidCount,    \* how many ids crypto.randomUUID has handed out so far
    lastAction,   \* the reducer action applied by the last step, if any
    reads,        \* history: localStorage.getItem calls of this session
    earlyWrite,   \* history: a setItem happened before the getItem returned
    updateCall,   \* history: how the last step's call of handleUpdate ended
    loadFailed,   \* history: the catch of initApp ran in this session
    carried,      \* history: the in-memory list at the last reload or Save
    trace         \* history (reducer runs only): the actions applied so far

vars == <<storage, todos, inputValue, editingId, editText, isMounted, queue,
          mountedNext, phase, uuidCount, lastAction, reads, earlyWrite,
          updateCall, loadFailed, carried, trace>>

----------------------------------------------------------------------------
(* Bounds of the model. *)

\* handleAdd is not exercised on a list that already holds this many items
MaxTodos == 2
\* the number of ids crypto.randomUUID hands out in one behaviour
MaxUuid == MaxTodos

----------------------------------------------------------------------------
(* JavaScript values *)

Undefined == [tag |-> "undefined"]
Null == [tag |-> "null"]
Bool(b) == [tag |-> "boolean", b |-> b]
\* A Number, which is a double: when finite, the exact decimal expansion of
\* its magnitude (digits before the point, without leading zeros; frac after
\* it, without trailing zeros) and its sign, which zero has too.  Num(digits)
\* is the non-negative integer with these digits.
Num(digits) ==
    [tag |-> "number", digits |-> digits, frac |-> <<>>, neg |-> FALSE,
     finite |-> TRUE]
Infinity ==
    [tag |-> "number", digits |-> <<>>, frac |-> <<>>, neg |-> FALSE,
     finite |-> FALSE]
\* a string: the sequence of its UTF-16 code units
Str(s) == [tag |-> "string", s |-> s]
\* An array or an object has an identity, ref.  JSON.parse runs at most once
\* in a page session and names each array and object it creates by the
\* position of its opening bracket in the text.  What the page's own code
\* creates (an array or object literal, the result of map or filter) is
\* Fresh: only todos refers to it, and it is never an operand of ===, whose
\* operands are an id, a payload or editingId.
Fresh == 0
Arr(items) == [tag |-> "array", items |-> items, ref |-> Fresh]
Obj(props) == [tag |-> "object", props |-> props, ref |-> Fresh]
\* the array or object v as the one created at position r
At(v, r) == [v EXCEPT !.ref = r]
Prop(key, val) == [key |-> key, val |-> val]

\* the completion of an evaluation that threw
Throw == [tag |-> "throw"]

Digits == <<"0", "1", "2", "3", "4", "5", "6", "7", "8", "9">>
IsDigit(c) == \E i \in 1..Len(Digits) : Digits[i] = c
DigitVal(c) == (CHOOSE i \in 1..Len(Digits) : Digits[i] = c) - 1

RECURSIVE ToDecimal(_)
ToDecimal(n) ==
    IF n < Len(Digits) THEN <<Digits[n + 1]>>
    ELSE ToDecimal(n \div Len(Digits)) \o <<Digits[(n % Len(Digits)) + 1]>>

RECURSIVE DecVal(_)
DecVal(ds) ==
    IF ds = <<>> THEN 0
    ELSE DecVal(SubSeq(ds, 1, Len(ds) - 1)) * Len(Digits) + DigitVal(ds[Len(ds)])

AllDigits(ds) == ds /= <<>> /\ \A i \in 1..Len(ds) : IsDigit(ds[i])
\* a decimal integer without leading zeros
IsCanonicalInt(ds) == AllDigits(ds) /\ (Len(ds) = 1 \/ ds[1] /= "0")

\* the property names the source uses
K_id == <<"i", "d">>
K_text == <<"t", "e", "x", "t">>
K_completed == <<"c", "o", "m", "p", "l", "e", "t", "e", "d">>
K_createdAt == <<"c", "r", "e", "a", "t", "e", "d", "A", "t">>

\* ToBoolean, as `if (saved)`, `!t.completed`, `editingId && ...` apply it
Truthy(v) ==
    CASE v.tag = "undefined" -> FALSE
      [] v.tag = "null" -> FALSE
      [] v.tag = "boolean" -> v.b
      [] v.tag = "number" ->
            ~(v.finite /\ v.digits = <<"0">> /\ v.frac = <<>>)
      [] v.tag = "string" -> v.s /= <<>>
      [] OTHER -> TRUE

IsNullish(v) == v.tag \in {"undefined", "null"}
IsPrimitive(v) == v.tag \in {"undefined", "null", "boolean", "number", "string"}

\* a === b.  Two primitives are equal when they are the same value (the
\* model has no NaN), and the two zeros are equal; an array or an object is
\* equal to itself only, and a Fresh one is another object than any it is
\* compared to.
StrictEquals(a, b) ==
    IF IsPrimitive(a) \/ IsPrimitive(b)
    THEN \/ a = b
         \/ /\ a.tag = "number" /\ b.tag = "number"
            /\ ~Truthy(a) /\ ~Truthy(b)
    ELSE a.ref = b.ref /\ a.ref /= Fresh

HasProp(props, key) == \E i \in 1..Len(props) : props[i].key = key
PropIndex(props, key) == CHOOSE i \in 1..Len(props) : props[i].key = key

\* t.id, t.text, t.completed: the own property of an object, undefined on any
\* other value that has no such property (the names read are never an index
\* nor "length"); reading a property of null or undefined throws.
Get(v, key) ==
    IF IsNullish(v) THEN Throw
    ELSE IF v.tag = "object" /\ HasProp(v.props, key)
         THEN v.props[PropIndex(v.props, key)].val
         ELSE Undefined

\* Property order of an ordinary object: integer-index keys in ascending
\* order first, then the other keys in the order they were created.
\* An array index is a canonical numeric string below 2^32 - 1; a longer or
\* larger digit string is an ordinary key and keeps its creation order.
MaxArrayIndex == <<"4", "2", "9", "4", "9", "6", "7", "2", "9", "4">>

\* a < b, for two decimal integers without leading zeros
DigitsLess(a, b) ==
    \/ Len(a) < Len(b)
    \/ /\ Len(a) = Len(b)
       /\ \E i \in 1..Len(a) :
             /\ DigitVal(a[i]) < DigitVal(b[i])
             /\ \A j \in 1..(i - 1) : a[j] = b[j]

IsArrayIndex(key) == IsCanonicalInt(key) /\ ~DigitsLess(MaxArrayIndex, key)

InsertAt(seq, i, e) == SubSeq(seq, 1, i - 1) \o <<e>> \o SubSeq(seq, i, Len(seq))

DefineProperty(props, key, val) ==
    IF HasProp(props, key)
    THEN [props EXCEPT ![PropIndex(props, key)].val = val]
    ELSE IF IsArrayIndex(key)
    THEN LET after == {i \in 1..Len(props) :
                          ~IsArrayIndex(props[i].key)
                          \/ DigitsLess(key, props[i].key)}
             at == IF after = {} THEN Len(props) + 1
                   ELSE CHOOSE i \in after : \A j \in after : i <= j
         IN InsertAt(props, at, Prop(key, val))
    ELSE Append(props, Prop(key, val))

\* { ...t }: the own enumerable properties of t
Spread(t) ==
    CASE t.tag = "object" -> t.props
      [] t.tag = "array" ->
            [i \in 1..Len(t.items) |-> Prop(ToDecimal(i - 1), t.items[i])]
      [] t.tag = "string" ->
            [i \in 1..Len(t.s) |-> Prop(ToDecimal(i - 1), Str(<<t.s[i]>>))]
      [] OTHER -> <<>>

\* String.prototype.trim strips the code points of WhiteSpace and of
\* LineTerminator.  A code unit that has no escape in a TLA+ string is
\* written as its name, U+ and four hexadecimal digits.
WhiteSpace ==
    {"\t", "U+000B", "\f", " ", "U+00A0", "U+FEFF",
     \* category Zs
     "U+1680", "U+2000", "U+2001", "U+2002", "U+2003", "U+2004", "U+2005",
     "U+2006", "U+2007", "U+2008", "U+2009", "U+200A", "U+202F", "U+205F",
     "U+3000"}
LineTerminator == {"\n", "\r", "U+2028", "U+2029"}

IsWhiteSpace(c) == c \in WhiteSpace \cup LineTerminator

RECURSIVE TrimStart(_)
TrimStart(s) ==
    IF s /= <<>> /\ IsWhiteSpace(Head(s)) THEN TrimStart(Tail(s)) ELSE s

RECURSIVE TrimEnd(_)
TrimEnd(s) ==
    IF s /= <<>> /\ IsWhiteSpace(s[Len(s)])
    THEN TrimEnd(SubSeq(s, 1, Len(s) - 1)) ELSE s

Trim(s) == TrimEnd(TrimStart(s))

----------------------------------------------------------------------------
(* JSON text, as tokens *)

Tok(k) == [k |-> k, v |-> <<>>]
TStr(s) == [k |-> "str", v |-> s]
TNum(lit) == [k |-> "num", v |-> lit]

\* A number literal: an optional minus sign, integer digits, an optional
\* fraction, an optional exponent (e or E, an optional sign, digits).  The
\* operators below HasExp to Exponent take the literal without its sign.
HasExp(lit) == \E i \in 1..Len(lit) : lit[i] \in {"e", "E"}
ExpAt(lit) == CHOOSE i \in 1..Len(lit) : lit[i] \in {"e", "E"}
Significand(lit) == IF HasExp(lit) THEN SubSeq(lit, 1, ExpAt(lit) - 1) ELSE lit
HasDot(lit) == \E i \in 1..Len(Significand(lit)) : lit[i] = "."
DotAt(lit) == CHOOSE i \in 1..Len(Significand(lit)) : lit[i] = "."
IntPart(lit) ==
    IF HasDot(lit) THEN SubSeq(lit, 1, DotAt(lit) - 1) ELSE Significand(lit)
FracPart(lit) ==
    IF HasDot(lit) THEN SubSeq(lit, DotAt(lit) + 1, Len(Significand(lit))) ELSE <<>>
NegativeExp(lit) ==
    HasExp(lit) /\ ExpAt(lit) < Len(lit) /\ lit[ExpAt(lit) + 1] = "-"
Exponent(lit) ==
    IF ~HasExp(lit) THEN <<"0">>
    ELSE IF ExpAt(lit) < Len(lit) /\ lit[ExpAt(lit) + 1] \in {"+", "-"}
    THEN SubSeq(lit, ExpAt(lit) + 2, Len(lit))
    ELSE SubSeq(lit, ExpAt(lit) + 1, Len(lit))

\* a digit sequence without its leading zeros, and without its trailing zeros
Canon(ds) ==
    LET leading == {i \in 1..(Len(ds) - 1) : \A j \in 1..i : ds[j] = "0"}
    IN SubSeq(ds, Cardinality(leading) + 1, Len(ds))

StripZeros(ds) ==
    LET trailing == {i \in 1..Len(ds) : \A j \in i..Len(ds) : ds[j] = "0"}
    IN SubSeq(ds, 1, Len(ds) - Cardinality(trailing))

Zeros(n) == [i \in 1..n |-> "0"]

\* a literal of the JSON grammar
ValidNumber(lit) ==
    /\ lit /= <<>>
    /\ LET u == IF Head(lit) = "-" THEN Tail(lit) ELSE lit
       IN /\ IsCanonicalInt(IntPart(u))
          /\ HasDot(u) => AllDigits(FracPart(u))
          /\ AllDigits(Exponent(u))

\* Arithmetic on decimal integers, as needed to find the nearest double.
IsOdd(ds) == DigitVal(ds[Len(ds)]) % 2 = 1

\* ds \div 2
Half(ds) ==
    Canon([i \in 1..Len(ds) |->
             Digits[((IF i > 1 /\ DigitVal(ds[i - 1]) % 2 = 1 THEN 10 ELSE 0)
                     + DigitVal(ds[i])) \div 2 + 1]])

\* ds * 2
Twice(ds) ==
    LET Carry(i) == IF i <= Len(ds) /\ DigitVal(ds[i]) >= 5 THEN 1 ELSE 0
        low == [i \in 1..Len(ds) |->
                   Digits[((2 * DigitVal(ds[i])) % 10) + Carry(i + 1) + 1]]
    IN IF Carry(1) = 1 THEN <<"1">> \o low ELSE low

\* ds + 1
Inc(ds) ==
    LET nines == {i \in 1..Len(ds) : \A j \in i..Len(ds) : ds[j] = "9"}
        at == Len(ds) - Cardinality(nines)
    IN IF at = 0 THEN <<"1">> \o Zeros(Len(ds))
       ELSE [i \in 1..Len(ds) |->
               IF i < at THEN ds[i]
               ELSE IF i = at THEN Digits[DigitVal(ds[i]) + 2] ELSE "0"]

\* 2^53: a double has 53 significant bits
TwoTo53 == <<"9", "0", "0", "7", "1", "9", "9", "2", "5", "4", "7", "4", "0",
             "9", "9", "2">>
\* the largest binary exponent of a 53-bit significand: 1023 - 52
MaxShift == 971

\* One binary digit shifted out of q: k counts them, round is the last one
\* shifted out, sticky whether any before it was set.
Halve(s) ==
    [q |-> Half(s.q), k |-> s.k + 1, round |-> IsOdd(s.q),
     sticky |-> s.sticky \/ s.round]

\* n binary digits shifted out, one half of them after the other (the
\* tests on the intermediate result have it evaluated before the second
\* half starts, which keeps the evaluation shallow)
RECURSIVE HalveTimes(_, _)
HalveTimes(s, n) ==
    IF n = 0 THEN s
    ELSE IF n = 1 THEN Halve(s)
    ELSE LET h == HalveTimes(s, n \div 2)
         IN IF h.k > s.k THEN HalveTimes(h, n - (n \div 2)) ELSE h

\* q * 2^k
RECURSIVE TimesTwoTo(_, _)
TimesTwoTo(q, k) ==
    IF k = 0 THEN q
    ELSE IF k = 1 THEN Twice(q)
    ELSE LET h == TimesTwoTo(q, k \div 2)
         IN IF h /= <<>> THEN TimesTwoTo(h, k - (k \div 2)) ELSE h

\* q * 5^t
RECURSIVE TimesFiveTo(_, _)
TimesFiveTo(q, t) ==
    IF t = 0 THEN q
    ELSE IF t = 1 THEN Half(q \o <<"0">>)
    ELSE LET h == TimesFiveTo(q, t \div 2)
         IN IF h /= <<>> THEN TimesFiveTo(h, t - (t \div 2)) ELSE h

\* The significand of n: n halved until it is below 2^53.
RECURSIVE Shift(_)
Shift(s) == IF DigitsLess(s.q, TwoTo53) THEN s ELSE Shift(Halve(s))

\* q / 2^t, which is q * 5^t / 10^t, as a Number
Fraction(q, t) ==
    LET x == Zeros(t) \o TimesFiveTo(q, t)
    IN [tag |-> "number", digits |-> Canon(SubSeq(x, 1, Len(x) - t)),
        frac |-> StripZeros(SubSeq(x, Len(x) - t + 1, Len(x))),
        neg |-> FALSE, finite |-> TRUE]

\* The significand s.q rounded to nearest, ties to even, and scaled by
\* 2^s.k; Infinity when that is 2^1024 or more.
Rounded(s) ==
    LET q == IF s.round /\ (s.sticky \/ IsOdd(s.q)) THEN Inc(s.q) ELSE s.q
    IN IF s.k > MaxShift \/ (s.k = MaxShift /\ q = TwoTo53) THEN Infinity
       ELSE IF s.k >= 0 THEN Num(TimesTwoTo(q, s.k))
       ELSE Fraction(q, 0 - s.k)

\* The number of binary digits a value of [10^p, 10^(p + 1)) is scaled up by
\* to have 55 of them or more before the point: 54 less a lower bound of its
\* binary logarithm (3.321 < log2(10) < 3.322).  No more than 1075, where
\* the last binary digit of the smallest doubles, 2^-1074, is the second
\* before the point.
Scale2(p) ==
    LET lb == IF p >= 0 THEN (p * 3321) \div 1000
              ELSE 0 - ((((0 - p) * 3322) + 999) \div 1000)
    IN IF lb >= 54 THEN 0 ELSE IF 54 - lb > 1075 THEN 1075 ELSE 54 - lb

\* The double nearest to x / 10^k / 2^j, where k = j = 0 or
\* j = Scale2 of the value.  The integer part of x / 10^k is the
\* significand to start from and the rest is sticky.  The integer part has
\* for certain some binary digits beyond the 53 of a significand, which are
\* shifted out first: n >= 10^(Len(n) - 1) >= 2^(3.321 * (Len(n) - 1)); and
\* the last binary digit before the point is one too many where j = 1075.
RoundScaled(x, k, j) ==
    Rounded(Shift(HalveTimes(
        [q |-> IF Len(x) > k THEN SubSeq(x, 1, Len(x) - k) ELSE <<"0">>,
         k |-> 0 - j, round |-> FALSE,
         sticky |-> \E i \in 1..Len(x) : i > Len(x) - k /\ x[i] /= "0"],
        IF ((Len(x) - k - 1) * 3321) \div 1000 > 53
        THEN ((Len(x) - k - 1) * 3321) \div 1000 - 53
        ELSE IF j = 1075 THEN 1 ELSE 0)))

\* The double nearest to m * 10^s, for an integer m > 0 without leading
\* zeros.  10^309 is beyond every double, and 10^-330 is less than half the
\* smallest one.
ToDouble(m, s) ==
    IF m = <<"0">> \/ Len(m) + s < 0 - 330 THEN Num(<<"0">>)
    ELSE IF Len(m) + s > 309 THEN Infinity
    ELSE IF s >= 0 THEN RoundScaled(m \o Zeros(s), 0, 0)
    ELSE RoundScaled(TimesTwoTo(m, Scale2(Len(m) + s - 1)), 0 - s,
                     Scale2(Len(m) + s - 1))

\* The Number a literal denotes: its digits times ten to the exponent less
\* the number of fraction digits, with the sign of the literal.  A literal
\* has far fewer than 10^9 characters, so an exponent of ten digits or more
\* exceeds any number of digits.
NumberValue(lit) ==
    LET u == IF Head(lit) = "-" THEN Tail(lit) ELSE lit
        e == Canon(Exponent(u))
    IN [(IF Len(e) > 9
         THEN (IF NegativeExp(u) \/ Canon(IntPart(u) \o FracPart(u)) = <<"0">>
               THEN Num(<<"0">>) ELSE Infinity)
         ELSE ToDouble(Canon(IntPart(u) \o FracPart(u)),
                       (IF NegativeExp(u) THEN 0 - DecVal(e) ELSE DecVal(e))
                       - Len(FracPart(u))))
        EXCEPT !.neg = (Head(lit) = "-")]

\* Number::toString of a finite Number v other than zero: the fewest
\* significant digits that still denote v, the candidate nearest to it when
\* two have that many (the even one when equally near).
\* The two candidates of k significant digits around v, as d * 10^e:
RoundedDown(v, k) ==
    [d |-> SubSeq(Canon(v.digits \o v.frac), 1, k),
     e |-> Len(Canon(v.digits \o v.frac)) - Len(v.frac) - k]
RoundedUp(v, k) ==
    [d |-> Inc(SubSeq(Canon(v.digits \o v.frac), 1, k)),
     e |-> Len(Canon(v.digits \o v.frac)) - Len(v.frac) - k]
Denotes(c, v) == [ToDouble(c.d, c.e) EXCEPT !.neg = v.neg] = v

\* ds is nearer to its first k digits plus one than to its first k digits,
\* or as near and the k-th digit is odd
NearerUp(ds, k) ==
    LET rest == Twice(Canon(SubSeq(ds, k + 1, Len(ds)) \o <<"0">>))
        half == <<"1">> \o Zeros(Len(ds) - k + 1)
    IN DigitsLess(half, rest) \/ (half = rest /\ IsOdd(SubSeq(ds, 1, k)))

\* the fewest significant digits, from i on, of which a candidate denotes v:
\* all its digits do, and 17 digits denote any double
RECURSIVE ShortestLen(_, _)
ShortestLen(v, i) ==
    IF \/ i >= 17
       \/ i >= Len(Canon(v.digits \o v.frac))
       \/ Denotes(RoundedDown(v, i), v)
       \/ Denotes(RoundedUp(v, i), v)
    THEN i ELSE ShortestLen(v, i + 1)

Nearest(v, k) ==
    IF ~Denotes(RoundedUp(v, k), v) THEN RoundedDown(v, k)
    ELSE IF ~Denotes(RoundedDown(v, k), v) THEN RoundedUp(v, k)
    ELSE IF NearerUp(Canon(v.digits \o v.frac), k) THEN RoundedUp(v, k)
    ELSE RoundedDown(v, k)

\* The candidate c as Number::toString writes it.  With k digits (less the
\* zeros at the end) of which n are before the point: the integer when
\* k <= n <= 21, with a point when 0 < n <= 21, after "0." and zeros when
\* -6 < n <= 0, and as d.ddde+x or d.ddde-x otherwise.
Written(c) ==
    LET d == StripZeros(c.d)
        n == c.e + Len(c.d)
    IN IF Len(d) <= n /\ n <= 21 THEN d \o Zeros(n - Len(d))
       ELSE IF 0 < n /\ n <= 21
       THEN SubSeq(d, 1, n) \o <<".">> \o SubSeq(d, n + 1, Len(d))
       ELSE IF 0 - 6 < n /\ n <= 0 THEN <<"0", ".">> \o Zeros(0 - n) \o d
       ELSE <<Head(d)>>
            \o (IF Len(d) > 1 THEN <<".">> \o Tail(d) ELSE <<>>)
            \o (IF n > 0 THEN <<"e", "+">> \o ToDecimal(n - 1)
                ELSE <<"e", "-">> \o ToDecimal(1 - n))

\* Number::toString of a finite Number: either zero is "0"
NumberToString(v) ==
    IF v.digits = <<"0">> /\ v.frac = <<>> THEN <<"0">>
    ELSE (IF v.neg THEN <<"-">> ELSE <<>>)
         \o Written(Nearest(v, ShortestLen(v, 1)))

Kind(t, i) == IF i \in 1..Len(t) THEN t[i].k ELSE "eof"

Ok(v, n) == [ok |-> TRUE, val |-> v, next |-> n]
Fail == [ok |-> FALSE, val |-> Undefined, next |-> 0]

RECURSIVE ParseValue(_, _), ParseElements(_, _, _), ParseMembers(_, _, _)

ParseValue(t, i) ==
    LET k == Kind(t, i) IN
    CASE k = "str" -> Ok(Str(t[i].v), i + 1)
      [] k = "num" ->
            IF ValidNumber(t[i].v) THEN Ok(NumberValue(t[i].v), i + 1) ELSE Fail
      [] k = "true" -> Ok(Bool(TRUE), i + 1)
      [] k = "false" -> Ok(Bool(FALSE), i + 1)
      [] k = "null" -> Ok(Null, i + 1)
      [] k = "[" ->
            IF Kind(t, i + 1) = "]" THEN Ok(At(Arr(<<>>), i), i + 2)
            ELSE LET r == ParseElements(t, i + 1, <<>>)
                 IN IF r.ok THEN Ok(At(r.val, i), r.next) ELSE Fail
      [] k = "{" ->
            IF Kind(t, i + 1) = "}" THEN Ok(At(Obj(<<>>), i), i + 2)
            ELSE LET r == ParseMembers(t, i + 1, <<>>)
                 IN IF r.ok THEN Ok(At(r.val, i), r.next) ELSE Fail
      [] OTHER -> Fail

ParseElements(t, i, acc) ==
    LET r == ParseValue(t, i) IN
    IF ~r.ok THEN Fail
    ELSE IF Kind(t, r.next) = "," THEN ParseElements(t, r.next + 1, Append(acc, r.val))
    ELSE IF Kind(t, r.next) = "]" THEN Ok(Arr(Append(acc, r.val)), r.next + 1)
    ELSE Fail

ParseMembers(t, i, acc) ==
    IF Kind(t, i) /= "str" \/ Kind(t, i + 1) /= ":" THEN Fail
    ELSE LET r == ParseValue(t, i + 2) IN
         IF ~r.ok THEN Fail
         ELSE IF Kind(t, r.next) = ","
         THEN ParseMembers(t, r.next + 1, DefineProperty(acc, t[i].v, r.val))
         ELSE IF Kind(t, r.next) = "}"
         THEN Ok(Obj(DefineProperty(acc, t[i].v, r.val)), r.next + 1)
         ELSE Fail

IsNotWs(tok) == tok.k /= "ws"

\* JSON.parse(text): [ok |-> TRUE, val |-> the value], or ok = FALSE where
\* JSON.parse throws a SyntaxError.
JSONparse(text) ==
    LET t == SelectSeq(text, IsNotWs)
        r == ParseValue(t, 1)
    IN IF r.ok /\ r.next = Len(t) + 1 THEN [ok |-> TRUE, val |-> r.val]
       ELSE [ok |-> FALSE, val |-> Undefined]

RECURSIVE JSONstringify(_), StringifyItems(_), StringifyProps(_)

\* JSON.stringify(value): the text, without white space.
JSONstringify(v) ==
    CASE v.tag = "null" -> <<Tok("null")>>
      [] v.tag = "boolean" -> IF v.b THEN <<Tok("true")>> ELSE <<Tok("false")>>
      [] v.tag = "number" ->
            IF v.finite THEN <<TNum(NumberToString(v))>> ELSE <<Tok("null")>>
      [] v.tag = "string" -> <<TStr(v.s)>>
      [] v.tag = "array" -> <<Tok("[")>> \o StringifyItems(v.items) \o <<Tok("]")>>
      [] v.tag = "object" -> <<Tok("{")>> \o StringifyProps(v.props) \o <<Tok("}")>>
      [] OTHER -> <<Tok("undefined")>>

StringifyItems(items) ==
    IF items = <<>> THEN <<>>
    ELSE (IF Head(items).tag = "undefined" THEN <<Tok("null")>>
          ELSE JSONstringify(Head(items)))
         \o (IF Tail(items) = <<>> THEN <<>>
             ELSE <<Tok(",")>> \o StringifyItems(Tail(items)))

IsDefinedProp(p) == p.val.tag /= "undefined"

StringifyProps(props) ==
    LET ps == SelectSeq(props, IsDefinedProp) IN
    IF ps = <<>> THEN <<>>
    ELSE <<TStr(Head(ps).key), Tok(":")>> \o JSONstringify(Head(ps).val)
         \o (IF Tail(ps) = <<>> THEN <<>>
             ELSE <<Tok(",")>> \o StringifyProps(Tail(ps)))

\* The value v without the identities: two values are alike, whichever
\* objects hold them, when their Plain forms are equal.
RECURSIVE Plain(_)
Plain(v) ==
    CASE v.tag = "array" -> Arr([i \in 1..Len(v.items) |-> Plain(v.items[i])])
      [] v.tag = "object" ->
            Obj([i \in 1..Len(v.props) |->
                    Prop(v.props[i].key, Plain(v.props[i].val))])
      [] OTHER -> v

----------------------------------------------------------------------------
(* The State Store: type Action and todoReducer *)

SetTodos(payload) == [type |-> "SET_TODOS", payload |-> payload]
AddTodo(payload) == [type |-> "ADD_TODO", payload |-> payload]
ToggleTodo(payload) == [type |-> "TOGGLE_TODO", payload |-> payload]
DeleteTodo(payload) == [type |-> "DELETE_TODO", payload |-> payload]
UpdateTodo(id, text) == [type |-> "UPDATE_TODO", payload |-> [id |-> id, text |-> text]]
NoAction == [type |-> "none"]

\* crypto.randomUUID(): the n-th id handed out; no two calls return the same id
randomUUID(n) == Str(<<"u">> \o ToDecimal(n))
\* new Date().toISOString() at time d
toISOString(d) == Str(<<"T">> \o ToDecimal(d))

\* the object literal of ADD_TODO
NewTodo(uuid, text, now) ==
    Obj(<<Prop(K_id, uuid), Prop(K_text, text),
          Prop(K_completed, Bool(FALSE)), Prop(K_createdAt, now)>>)

\* [...state, item].  The spread iterates a string by code point: a high
\* surrogate (U+D800 to U+DBFF) followed by a low one (U+DC00 to U+DFFF) is
\* one element, any other code unit is an element of its own.
SpreadAppend(state, item) ==
    CASE state.tag = "array" -> Arr(Append(state.items, item))
      [] state.tag = "string" ->
            LET Hex == {"0", "1", "2", "3", "4", "5", "6", "7", "8", "9",
                        "A", "B", "C", "D", "E", "F", "a", "b", "c", "d", "e", "f"}
                High == {"U+D" \o h \o x \o y :
                            h \in {"8", "9", "A", "B", "a", "b"}, x \in Hex, y \in Hex}
                Low == {"U+D" \o h \o x \o y :
                           h \in {"C", "D", "E", "F", "c", "d", "e", "f"},
                           x \in Hex, y \in Hex}
                Paired(i) ==
                    i < Len(state.s) /\ state.s[i] \in High /\ state.s[i + 1] \in Low
                starts == {i \in 1..Len(state.s) : i = 1 \/ ~Paired(i - 1)}
                StartOf(k) == CHOOSE i \in starts :
                             Cardinality({j \in starts : j < i}) = k - 1
            IN Arr(Append([k \in 1..Cardinality(starts) |->
                              Str(IF Paired(StartOf(k))
                                  THEN <<state.s[StartOf(k)], state.s[StartOf(k) + 1]>>
                                  ELSE <<state.s[StartOf(k)]>>)],
                          item))
      [] OTHER -> Throw

\* state.map / state.filter exist on arrays only, and the callbacks read t.id
CanIterate(state) ==
    state.tag = "array" /\ \A i \in 1..Len(state.items) : ~IsNullish(state.items[i])

\* mutant: { ...t, completed: true }
Toggled_SetTrue(t) == Obj(DefineProperty(Spread(t), K_completed, Bool(TRUE)))

\* { ...t, completed: !t.completed }
Toggled(t) == Obj(DefineProperty(Spread(t), K_completed, Bool(~Truthy(Get(t, K_completed)))))

\* { ...t, text: action.payload.text }
Retexted(t, text) == Obj(DefineProperty(Spread(t), K_text, text))

\* mutant: the new item is put in front, [item, ...state]
AddCase_Prepend(state, payload, uuid, now) ==
    IF state.tag = "array"
    THEN Arr(<<NewTodo(uuid, payload, now)>> \o state.items) ELSE Throw

\* mutant: the id is taken from the position of the new item,
\* id: String(state.length + 1), instead of crypto.randomUUID()
AddCase_LengthId(state, payload, uuid, now) ==
    IF state.tag = "array"
    THEN Arr(Append(state.items,
                    NewTodo(randomUUID(Len(state.items) + 1), payload, now)))
    ELSE Throw

\* case 'ADD_TODO' (page.tsx:23-29)
AddCase(state, payload, uuid, now) == SpreadAppend(state, NewTodo(uuid, payload, now))

\* case 'TOGGLE_TODO' (page.tsx:30-31)
ToggleCase(state, payload) ==
    IF ~CanIterate(state) THEN Throw
    ELSE Arr([i \in 1..Len(state.items) |->
                IF StrictEquals(Get(state.items[i], K_id), payload)
                THEN Toggled(state.items[i]) ELSE state.items[i]])

\* mutant: state.splice(state.findIndex(...), 1) on a copy; findIndex gives
\* -1 when no id matches, and splice(-1, 1) removes the last item
DeleteCase_Splice(state, payload) ==
    IF ~CanIterate(state) THEN Throw
    ELSE LET hits == {i \in 1..Len(state.items) :
                         StrictEquals(Get(state.items[i], K_id), payload)}
             at == IF hits = {} THEN Len(state.items)
                   ELSE CHOOSE i \in hits : \A j \in hits : i <= j
         IN Arr(SubSeq(state.items, 1, at - 1)
                \o SubSeq(state.items, at + 1, Len(state.items)))

\* case 'DELETE_TODO' (page.tsx:32-33)
DeleteCase(state, payload) ==
    IF ~CanIterate(state) THEN Throw
    ELSE LET Keep(t) == ~StrictEquals(Get(t, K_id), payload)
         IN Arr(SelectSeq(state.items, Keep))

\* case 'UPDATE_TODO' (page.tsx:34-35)
UpdateCase(state, payload) ==
    IF ~CanIterate(state) THEN Throw
    ELSE Arr([i \in 1..Len(state.items) |->
                IF StrictEquals(Get(state.items[i], K_id), payload.id)
                THEN Retexted(state.items[i], payload.text)
                ELSE state.items[i]])

todoReducer(state, action, uuid, now) ==
    CASE action.type = "SET_TODOS" -> action.payload
      [] action.type = "ADD_TODO" -> AddCase(state, action.payload, uuid, now)
      [] action.type = "TOGGLE_TODO" -> ToggleCase(state, action.payload)
      [] action.type = "DELETE_TODO" -> DeleteCase(state, action.payload)
      [] action.type = "UPDATE_TODO" -> UpdateCase(state, action.payload)
      [] OTHER -> state

----------------------------------------------------------------------------
(* The storage entry and what TodoPage renders *)

Absent == [present |-> FALSE, text |-> <<>>]
Stored(text) == [present |-> TRUE, text |-> text]

\* const saved = localStorage.getItem('todos'); if (saved) ...
SavedIsTruthy(st) == st.present /\ st.text /= <<>>

\* mutant: the catch lets the dispatch happen with the value that was not parsed
initApp_DispatchOnError(st) ==
    IF SavedIsTruthy(st) THEN <<SetTodos(JSONparse(st.text).val)>> ELSE <<>>

\* whether initApp's catch runs: JSON.parse threw on the stored text
LoadFails(st) == SavedIsTruthy(st) /\ ~JSONparse(st.text).ok

\* The reducer actions initApp dispatches: SET_TODOS with the parsed value
\* when there is a non-empty stored text and JSON.parse does not throw;
\* nothing when the entry is absent or empty, or when the catch took the error.
initApp(st) ==
    IF SavedIsTruthy(st) /\ JSONparse(st.text).ok
    THEN <<SetTodos(JSONparse(st.text).val)>>
    ELSE <<>>

\* mutant: only the items still to do are written
SaveText_ActiveOnly(list) ==
    LET Active(t) == ~Truthy(Get(t, K_completed))
    IN JSONstringify(IF CanIterate(list) THEN Arr(SelectSeq(list.items, Active)) ELSE list)

\* the text the save effect writes
SaveText(list) == JSONstringify(list)

\* {todo.text} as a React child: objects are not valid children
RECURSIVE ValidChild(_)
ValidChild(v) ==
    CASE v.tag = "object" -> FALSE
      [] v.tag = "array" -> \A i \in 1..Len(v.items) : ValidChild(v.items[i])
      [] OTHER -> TRUE

\* const activeCount = todos.filter(t => !t.completed).length
activeCount(list) ==
    Cardinality({i \in 1..Len(list.items) : ~Truthy(Get(list.items[i], K_completed))})

\* the item whose edit input is shown: editingId === todo.id
InEditMode(eid, t) == StrictEquals(eid, Get(t, K_id))

\* '' + v throws a TypeError: React coerces a key (that is not undefined) and
\* the value of a controlled input this way.  An object of JSON.parse has the
\* toString of Object.prototype unless it has an own property of that name,
\* whose value is never callable; an array joins the strings of its elements
\* other than null and undefined.
K_toString == <<"t", "o", "S", "t", "r", "i", "n", "g">>

RECURSIVE CoercionThrows(_)
CoercionThrows(v) ==
    CASE v.tag = "object" -> HasProp(v.props, K_toString)
      [] v.tag = "array" ->
            \E i \in 1..Len(v.items) :
               ~IsNullish(v.items[i]) /\ CoercionThrows(v.items[i])
      [] OTHER -> FALSE

\* Whether rendering TodoPage throws: todos.filter on a non-array or on an
\* array holding null (before the loading gate), and, once mounted, for some
\* item its key={todo.id}, or the value={editText} of its edit input, or else
\* a label {todo.text} that is not a valid child.
RenderThrows(list, mounted, eid, etext) ==
    \/ ~CanIterate(list)
    \/ /\ mounted
       /\ \E i \in 1..Len(list.items) :
             \/ CoercionThrows(Get(list.items[i], K_id))
             \/ IF InEditMode(eid, list.items[i])
                THEN ~IsNullish(etext) /\ CoercionThrows(etext)
                ELSE ~ValidChild(Get(list.items[i], K_text))

----------------------------------------------------------------------------
(* Values the storage entry can hold when a session starts: written by an  *)
(* earlier session of this page, or by anything else that shares the       *)
(* origin's localStorage.                                                  *)

TodoA == NewTodo(Str(<<"a">>), Str(<<"x">>), toISOString(0))
TodoB == Obj(<<Prop(K_id, Str(<<"b">>)), Prop(K_text, Str(<<"y">>)),
               Prop(K_completed, Bool(TRUE)), Prop(K_createdAt, toISOString(0))>>)
\* a second item carrying the id of TodoA
TodoA2 == NewTodo(Str(<<"a">>), Str(<<"y">>), toISOString(1))

WellFormedTexts ==
    { SaveText(Arr(<<>>)),
      SaveText(Arr(<<TodoA>>)),
      SaveText(Arr(<<TodoA, TodoB>>)),
      \* the same list as a pretty-printer would lay it out
      <<Tok("["), Tok("ws")>> \o SaveText(TodoA) \o <<Tok("ws"), Tok("]")>> }

DuplicateIdTexts == { SaveText(Arr(<<TodoA, TodoA2>>)) }

UnparsableTexts ==
    { <<Tok("[")>>,
      <<Tok("ws")>>,
      <<Tok("["), Tok("{"), TStr(K_id), Tok(":"), TStr(<<"a">>), Tok("]")>> }

\* parsable, but not an array of Task objects
ForeignTexts ==
    { <<Tok("null")>>,
      <<Tok("{"), Tok("}")>>,
      <<Tok("["), Tok("null"), Tok("]")>>,
      <<Tok("["), TNum(<<"1", "e", "9", "9", "9">>), Tok("]")>>,
      \* a text that is no valid child
      SaveText(Arr(<<Obj(<<Prop(K_id, Str(<<"a">>)), Prop(K_text, Obj(<<>>))>>)>>)),
      \* an id that is an object, a text that is a number
      SaveText(Arr(<<Obj(<<Prop(K_id, Obj(<<>>)),
                            Prop(K_text, NumberValue(<<"-", "1">>))>>)>>)),
      \* an id that is null
      SaveText(Arr(<<Obj(<<Prop(K_id, Null), Prop(K_text, Str(<<"x">>))>>)>>)),
      \* an id that React cannot turn into a key
      SaveText(Arr(<<Obj(<<Prop(K_id, Obj(<<Prop(K_toString, Num(<<"1">>))>>)),
                            Prop(K_text, Str(<<"x">>))>>)>>)) }

InitialStorage ==
    {Absent, Stored(<<>>)}
    \cup {Stored(t) : t \in WellFormedTexts \cup DuplicateIdTexts
                            \cup UnparsableTexts \cup ForeignTexts}

\* What the user can type into the two text inputs.  The value of a text
\* input holds no line feed and no carriage return, which the browser strips
\* from it; the other code points trim strips can be typed or pasted.
InputValues == {<<" ", "U+00A0">>, <<"U+2028", "b", " ">>}

\* the times at which the user adds an item
Dates == {1}

NotCarried == [valid |-> FALSE, list |-> Undefined]
Carry(list) == [valid |-> TRUE, list |-> list]

----------------------------------------------------------------------------
(* A page session *)

\* State of a freshly loaded page: the first render (todos = [], isMounted =
\* false, the loading placeholder) is committed, its effects have not run.
FreshPage ==
    /\ todos = Arr(<<>>)
    /\ inputValue = <<>>
    /\ editingId = Null
    /\ editText = Str(<<>>)
    /\ isMounted = FALSE
    /\ queue = <<>>
    /\ mountedNext = FALSE
    /\ phase = "mount"
    /\ lastAction = NoAction
    /\ reads = 0
    /\ earlyWrite = FALSE
    /\ updateCall = "none"
    /\ loadFailed = FALSE

Init ==
    /\ storage \in InitialStorage
    /\ FreshPage
    /\ uuidCount = 0
    /\ carried = NotCarried
    /\ trace = <<>>

\* mutant: the effect has no dependency array, so it runs after every commit
HydrationEffect_NoDeps ==
    /\ phase \in {"mount", "commit"}
    /\ reads' = reads + 1
    /\ queue' = initApp(storage)
    /\ loadFailed' = LoadFails(storage)
    /\ mountedNext' = TRUE
    /\ phase' = IF phase = "mount" THEN "mountSave" ELSE "commit"
    /\ updateCall' = "none"
    /\ UNCHANGED <<storage, todos, inputValue, editingId, editText, isMounted,
                   uuidCount, lastAction, earlyWrite, carried, trace>>

\* First effect of the mount (page.tsx:48-62).  initApp has no await, so it
\* runs to its end inside the effect: getItem, the dispatch, setIsMounted.
HydrationEffect ==
    /\ phase = "mount"
    /\ reads' = reads + 1
    /\ queue' = initApp(storage)
    /\ loadFailed' = LoadFails(storage)
    /\ mountedNext' = TRUE
    /\ phase' = "mountSave"
    /\ updateCall' = "none"
    /\ UNCHANGED <<storage, todos, inputValue, editingId, editText, isMounted,
                   uuidCount, lastAction, earlyWrite, carried, trace>>

\* mutant: the dependency array is [isMounted], so a change of todos alone
\* does not run the effect again
SaveEffect_MountedDepOnly ==
    /\ phase \in {"mountSave", "commit", "flush"}
    /\ IF isMounted /\ phase /= "flush"
       THEN /\ storage' = Stored(JSONstringify(todos))
            /\ earlyWrite' = (earlyWrite \/ reads = 0)
       ELSE UNCHANGED <<storage, earlyWrite>>
    /\ phase' = IF phase = "mountSave" THEN "update" ELSE "idle"
    /\ lastAction' = NoAction
    /\ carried' = IF phase = "mountSave" THEN carried ELSE NotCarried
    /\ updateCall' = "none"
    /\ UNCHANGED <<todos, inputValue, editingId, editText, isMounted, queue,
                   mountedNext, uuidCount, reads, loadFailed, trace>>

\* mutant: no `if (isMounted)` around setItem
SaveEffect_NoGuard ==
    /\ phase \in {"mountSave", "commit", "flush"}
    /\ storage' = Stored(JSONstringify(todos))
    /\ earlyWrite' = (earlyWrite \/ reads = 0)
    /\ phase' = IF phase = "mountSave" THEN "update" ELSE "idle"
    /\ lastAction' = NoAction
    /\ carried' = IF phase = "mountSave" THEN carried ELSE NotCarried
    /\ updateCall' = "none"
    /\ UNCHANGED <<todos, inputValue, editingId, editText, isMounted, queue,
                   mountedNext, uuidCount, reads, loadFailed, trace>>

\* mutant: the empty list is not written, if (isMounted && todos.length > 0)
SaveEffect_SkipEmpty ==
    /\ phase \in {"mountSave", "commit", "flush"}
    /\ IF isMounted /\ Len(todos.items) > 0
       THEN /\ storage' = Stored(JSONstringify(todos))
            /\ earlyWrite' = (earlyWrite \/ reads = 0)
       ELSE UNCHANGED <<storage, earlyWrite>>
    /\ phase' = IF phase = "mountSave" THEN "update" ELSE "idle"
    /\ lastAction' = NoAction
    /\ carried' = IF phase = "mountSave" THEN carried ELSE NotCarried
    /\ updateCall' = "none"
    /\ UNCHANGED <<todos, inputValue, editingId, editText, isMounted, queue,
                   mountedNext, uuidCount, reads, loadFailed, trace>>

\* Second effect (page.tsx:64-68), run after each commit that changed todos
\* or isMounted; it reads the isMounted and todos of that commit.
SaveEffect ==
    /\ phase \in {"mountSave", "commit", "flush"}
    /\ IF isMounted
       THEN /\ storage' = Stored(SaveText(todos))
            /\ earlyWrite' = (earlyWrite \/ reads = 0)
       ELSE UNCHANGED <<storage, earlyWrite>>
    /\ phase' = IF phase = "mountSave" THEN "update" ELSE "idle"
    /\ lastAction' = NoAction
    /\ carried' = IF phase = "mountSave" THEN carried ELSE NotCarried
    /\ updateCall' = "none"
    /\ UNCHANGED <<todos, inputValue, editingId, editText, isMounted, queue,
                   mountedNext, uuidCount, reads, loadFailed, trace>>

\* The list as the state holds it.  todos is the only reference to the list
\* and to the elements it holds, so which objects they are cannot be observed
\* and is not kept.  The objects inside an element (an id, a text) keep their
\* identity: editingId, editText and a payload can refer to them too.
Held(list) ==
    IF list.tag = "array"
    THEN Arr([i \in 1..Len(list.items) |->
                 IF list.items[i].tag \in {"array", "object"}
                 THEN At(list.items[i], Fresh) ELSE list.items[i]])
    ELSE IF list.tag = "object" THEN At(list, Fresh)
    ELSE list

\* The render React schedules for the updates the hydration effect queued.
\* initApp dispatches at most one action.
Rerender ==
    /\ phase = "update"
    /\ LET next == IF queue = <<>> THEN todos
                   ELSE Held(todoReducer(todos, Head(queue), Undefined, Undefined))
       IN /\ todos' = next
          /\ phase' = IF RenderThrows(next, mountedNext, editingId, editText)
                      THEN "error" ELSE "commit"
    /\ lastAction' = IF queue = <<>> THEN NoAction ELSE Head(queue)
    /\ isMounted' = mountedNext
    /\ queue' = <<>>
    /\ updateCall' = "none"
    /\ UNCHANGED <<storage, inputValue, editingId, editText, mountedNext,
                   uuidCount, reads, earlyWrite, loadFailed, carried, trace>>

\* mutant: no `if (!isMounted) return` before the form, whose events are
\* then handled before the hydration's re-render too
Interactive_NoGate == phase \in {"idle", "update"}

\* A user event is handled, rendered and its effects flushed in one task:
\* the handler's dispatch is reduced by the render that follows it.
Interactive == phase = "idle" /\ isMounted

\* eid and etext are the editingId and editText the handler has set
Dispatched(action, uuid, now, eid, etext) ==
    LET next == todoReducer(todos, action, uuid, now)
    IN /\ todos' = next
       /\ lastAction' = action
       /\ phase' = IF next = Throw \/ RenderThrows(next, TRUE, eid, etext)
                   THEN "error" ELSE "flush"

NotDispatched(eid, etext) ==
    /\ todos' = todos
    /\ lastAction' = NoAction
    /\ phase' = IF RenderThrows(todos, TRUE, eid, etext) THEN "error" ELSE "idle"

\* onChange of the add input (page.tsx:101)
TypeInput ==
    /\ Interactive
    /\ \E s \in InputValues : inputValue' = s
    /\ NotDispatched(editingId, editText)
    /\ updateCall' = "none"
    /\ UNCHANGED <<storage, editingId, editText, isMounted, queue, mountedNext,
                   uuidCount, reads, earlyWrite, loadFailed, carried, trace>>

\* mutant: no `if (!inputValue.trim()) return`
handleAdd_NoTrimCheck ==
    /\ phase = "idle" /\ isMounted
    /\ Len(todos.items) < MaxTodos
    /\ uuidCount < MaxUuid
    /\ \E d \in Dates :
          LET next == todoReducer(todos, AddTodo(Str(Trim(inputValue))),
                                  randomUUID(uuidCount + 1), toISOString(d))
          IN /\ todos' = next
             /\ lastAction' = AddTodo(Str(Trim(inputValue)))
             /\ phase' = IF RenderThrows(next, TRUE, editingId, editText)
                         THEN "error" ELSE "flush"
    /\ inputValue' = <<>>
    /\ uuidCount' = uuidCount + 1
    /\ updateCall' = "none"
    /\ UNCHANGED <<storage, editingId, editText, isMounted, queue, mountedNext,
                   reads, earlyWrite, loadFailed, carried, trace>>

\* page.tsx:70-75
handleAdd ==
    /\ Interactive
    /\ Len(todos.items) < MaxTodos
    /\ uuidCount < MaxUuid
    /\ IF Trim(inputValue) = <<>>
       THEN UNCHANGED <<todos, inputValue, lastAction, phase, uuidCount>>
       ELSE /\ \E d \in Dates :
                 Dispatched(AddTodo(Str(Trim(inputValue))),
                            randomUUID(uuidCount + 1), toISOString(d), editingId,
                            editText)
            /\ inputValue' = <<>>
            /\ uuidCount' = uuidCount + 1
    /\ updateCall' = "none"
    /\ UNCHANGED <<storage, editingId, editText, isMounted, queue, mountedNext,
                   reads, earlyWrite, loadFailed, carried, trace>>

\* onChange of an item's checkbox (page.tsx:120)
ToggleClick ==
    /\ Interactive
    /\ \E i \in 1..Len(todos.items) :
          Dispatched(ToggleTodo(Get(todos.items[i], K_id)), Undefined, Undefined,
                     editingId, editText)
    /\ updateCall' = "none"
    /\ UNCHANGED <<storage, inputValue, editingId, editText, isMounted, queue,
                   mountedNext, uuidCount, reads, earlyWrite, loadFailed, carried, trace>>

\* onClick of an item's delete button (page.tsx:144)
DeleteClick ==
    /\ Interactive
    /\ \E i \in 1..Len(todos.items) :
          Dispatched(DeleteTodo(Get(todos.items[i], K_id)), Undefined, Undefined,
                     editingId, editText)
    /\ updateCall' = "none"
    /\ UNCHANGED <<storage, inputValue, editingId, editText, isMounted, queue,
                   mountedNext, uuidCount, reads, earlyWrite, loadFailed, carried, trace>>

\* onDoubleClick of an item's label (page.tsx:77-80, 135)
startEditing ==
    /\ Interactive
    /\ \E i \in 1..Len(todos.items) :
          /\ ~InEditMode(editingId, todos.items[i])
          /\ editingId' = Get(todos.items[i], K_id)
          /\ editText' = Get(todos.items[i], K_text)
          /\ NotDispatched(Get(todos.items[i], K_id), Get(todos.items[i], K_text))
    /\ updateCall' = "none"
    /\ UNCHANGED <<storage, inputValue, isMounted, queue, mountedNext,
                   uuidCount, reads, earlyWrite, loadFailed, carried, trace>>

EditInputShown == \E i \in 1..Len(todos.items) : InEditMode(editingId, todos.items[i])

\* onChange of the edit input (page.tsx:128)
TypeEdit ==
    /\ Interactive
    /\ EditInputShown
    /\ \E s \in InputValues :
          /\ editText' = Str(s)
          /\ NotDispatched(editingId, Str(s))
    /\ updateCall' = "none"
    /\ UNCHANGED <<storage, inputValue, editingId, isMounted, queue, mountedNext,
                   uuidCount, reads, earlyWrite, loadFailed, carried, trace>>

\* page.tsx:82-87, called by onBlur and by Enter in the edit input.
\* editText.trim() throws when editText is not a string; the handler then
\* ends before setEditingId(null).
handleUpdate ==
    /\ Interactive
    /\ EditInputShown
    /\ IF Truthy(editingId) /\ editText.tag /= "string"
       THEN /\ updateCall' = "threw"
            /\ UNCHANGED <<todos, editingId, lastAction, phase>>
       ELSE /\ editingId' = Null
            /\ updateCall' = "done"
            /\ IF Truthy(editingId) /\ Trim(editText.s) /= <<>>
               THEN Dispatched(UpdateTodo(editingId, Str(Trim(editText.s))),
                               Undefined, Undefined, Null, editText)
               ELSE NotDispatched(Null, editText)
    /\ UNCHANGED <<storage, inputValue, editText, isMounted, queue, mountedNext,
                   uuidCount, reads, earlyWrite, loadFailed, carried, trace>>

\* The page is loaded anew: the first render of a fresh TodoPage
Opened ==
    /\ todos' = Arr(<<>>)
    /\ inputValue' = <<>>
    /\ editingId' = Null
    /\ editText' = Str(<<>>)
    /\ isMounted' = FALSE
    /\ queue' = <<>>
    /\ mountedNext' = FALSE
    /\ phase' = "mount"
    /\ lastAction' = NoAction
    /\ reads' = 0
    /\ earlyWrite' = FALSE
    /\ updateCall' = "none"
    /\ loadFailed' = FALSE

\* The user reloads (or closes and reopens) the page between two tasks.  The
\* in-memory state is lost, the storage entry stays.
Reload ==
    /\ phase \notin {"mountSave", "flush"}
    /\ carried' = IF isMounted /\ phase \in {"commit", "idle"}
                  THEN Carry(todos) ELSE NotCarried
    /\ Opened
    /\ UNCHANGED <<storage, uuidCount, trace>>

Next ==
    \/ HydrationEffect
    \/ SaveEffect
    \/ Rerender
    \/ TypeInput
    \/ handleAdd
    \/ ToggleClick
    \/ DeleteClick
    \/ startEditing
    \/ TypeEdit
    \/ handleUpdate
    \/ Reload

Spec == Init /\ [][Next]_vars

\* React runs a mounted component's pending effect and its scheduled
\* render: neither waits for anything outside the page.  The user's events
\* and reloads are not forced.
\* Started from one storage value of each kind: absent, unparsable, a
\* stored list of Tasks, a parsable value that is no list of Tasks.
FairStorage ==
    { Absent,
      Stored(<<Tok("[")>>),
      Stored(SaveText(Arr(<<TodoA>>))),
      Stored(<<Tok("["), TNum(<<"1", "e", "9", "9", "9">>), Tok("]")>>) }

FairInit == Init /\ storage \in FairStorage

FairSpec ==
    /\ FairInit
    /\ [][Next]_vars
    /\ WF_vars(SaveEffect)
    /\ WF_vars(Rerender)

----------------------------------------------------------------------------
(* The reducer and the serialization on their own: a hydrated page whose    *)
(* list is drawn from a bounded set and whose storage entry is the text it  *)
(* was hydrated from (no entry at all is the other start of the empty      *)
(* list), any actions applied to it (with any payload, matching an item or *)
(* not), then saved, then loaded by a page opened anew.                    *)

ReducerItems == {TodoA, TodoB, TodoA2}
ReducerLists == {Arr(l) : l \in UNION {[1..n -> ReducerItems] : n \in 0..MaxTodos}}
\* payload ids: of a stored item, of no item, of the first item added
ReducerIds == {Str(<<"a">>), Str(<<"z">>), randomUUID(1)}
ReducerTexts == {Str(<<"b">>), Str(<<>>)}
ReducerPayloads == {Arr(<<>>), Arr(<<TodoA>>), Arr(<<TodoB, TodoA>>)}

\* the scenario of the specification: from the empty list, Add, Add, Toggle
Scenario == <<"EMPTY", "ADD_TODO", "ADD_TODO", "TOGGLE_TODO">>

\* the first entry of a history: whether the run started from the empty list
Started(kind) == [type |-> kind]
TraceTypes == [i \in 1..Len(trace) |-> trace[i].type]

ReducerInit ==
    /\ todos \in ReducerLists
    /\ storage \in {Stored(SaveText(todos))}
                   \cup (IF todos = Arr(<<>>) THEN {Absent} ELSE {})
    /\ inputValue = <<>>
    /\ editingId = Null
    /\ editText = Str(<<>>)
    /\ isMounted = TRUE
    /\ queue = <<>>
    /\ mountedNext = TRUE
    /\ phase = "pure"
    /\ uuidCount = 0
    /\ lastAction = NoAction
    /\ reads = 1
    /\ earlyWrite = FALSE
    /\ updateCall = "none"
    /\ loadFailed = FALSE
    /\ carried = NotCarried
    /\ trace = IF todos = Arr(<<>>) THEN <<Started("EMPTY")>>
                                      ELSE <<Started("NONEMPTY")>>

Traced(action) ==
    IF Head(trace).type = "EMPTY" /\ Len(trace) < Len(Scenario)
    THEN Append(trace, action) ELSE <<Started("LONG")>>

Apply(action, uuid, now) ==
    /\ phase \in {"pure", "applied"}
    /\ todos' = todoReducer(todos, action, uuid, now)
    /\ lastAction' = action
    /\ trace' = Traced(action)
    /\ phase' = "applied"
    /\ updateCall' = "none"
    /\ UNCHANGED <<storage, inputValue, editingId, editText, isMounted, queue,
                   mountedNext, reads, earlyWrite, loadFailed, carried>>

ApplyAdd ==
    /\ uuidCount < MaxUuid
    /\ \E text \in ReducerTexts, d \in Dates :
          Apply(AddTodo(text), randomUUID(uuidCount + 1), toISOString(d))
    /\ uuidCount' = uuidCount + 1

ApplyToggle ==
    /\ \E id \in ReducerIds : Apply(ToggleTodo(id), Undefined, Undefined)
    /\ UNCHANGED uuidCount

ApplyDelete ==
    /\ \E id \in ReducerIds : Apply(DeleteTodo(id), Undefined, Undefined)
    /\ UNCHANGED uuidCount

ApplyUpdate ==
    /\ \E id \in ReducerIds, text \in ReducerTexts :
          Apply(UpdateTodo(id, text), Undefined, Undefined)
    /\ UNCHANGED uuidCount

ApplySetTodos ==
    /\ \E list \in ReducerPayloads : Apply(SetTodos(list), Undefined, Undefined)
    /\ UNCHANGED uuidCount

\* Save(list): the save effect (page.tsx:64-68) run for the list
Save ==
    /\ phase \in {"pure", "applied"}
    /\ IF isMounted
       THEN storage' = Stored(SaveText(todos))
       ELSE UNCHANGED storage
    /\ carried' = Carry(todos)
    /\ lastAction' = NoAction
    /\ phase' = "saved"
    /\ updateCall' = "none"
    /\ UNCHANGED <<todos, inputValue, editingId, editText, isMounted, queue,
                   mountedNext, uuidCount, reads, earlyWrite, loadFailed, trace>>

\* Load(): the page is opened anew on the saved entry; its hydration is the
\* effects and the re-render of a page session
Reopen ==
    /\ phase = "saved"
    /\ Opened
    /\ UNCHANGED <<storage, uuidCount, carried, trace>>

ReducerNext ==
    \/ ApplyAdd
    \/ ApplyToggle
    \/ ApplyDelete
    \/ ApplyUpdate
    \/ ApplySetTodos
    \/ Save
    \/ Reopen
    \/ HydrationEffect
    \/ SaveEffect
    \/ Rerender

ReducerSpec == ReducerInit /\ [][ReducerNext]_vars

----------------------------------------------------------------------------
(* Properties *)

IdOf(t) == Get(t, K_id)
HasId(list, id) == \E i \in 1..Len(list.items) : StrictEquals(IdOf(list.items[i]), id)
PayloadId(action) ==
    IF action.type = "UPDATE_TODO" THEN action.payload.id ELSE action.payload
LastItem(list) == list.items[Len(list.items)]
\* the stored text of this session's hydration could not be deserialized
StoredTextUnparsable == SavedIsTruthy(storage) /\ ~JSONparse(storage.text).ok

\* C1: in every session localStorage.getItem('todos') is called exactly once,
\* by the hydration effect, and no setItem happens before it has returned.
C1_LoadOnceBeforeSave ==
    /\ reads = (IF phase = "mount" THEN 0 ELSE 1)
    /\ ~earlyWrite

\* a session that has loaded once and has since saved a list holding an added item
C1_Witness ==
    /\ phase = "idle"
    /\ reads = 1
    /\ HasId(todos, randomUUID(1))
    /\ storage = Stored(SaveText(todos))

\* C2: when the stored text cannot be deserialized, the hydration effect
\* dispatches nothing and still queues isMounted = true, the re-render then
\* commits with the empty list and isMounted true, and no error state is
\* reached.  (The precondition refers to the text found at startup: nothing
\* is written before the first commit with isMounted true has run its effect.)
C2_CorruptHydratesEmpty ==
    (StoredTextUnparsable /\ phase /= "mount") =>
        /\ phase \in {"mountSave", "update", "commit"}
        /\ phase \in {"mountSave", "update"} => (queue = <<>> /\ mountedNext)
        /\ phase = "commit" => (todos = Arr(<<>>) /\ isMounted)

\* hydration from an unparsable text has committed
C2_Witness == StoredTextUnparsable /\ phase = "commit" /\ isMounted

\* C3: after hydration, whenever no run of the save effect is pending, the
\* storage entry holds exactly the serialization of the whole in-memory list.
C3_StorageMatchesList ==
    phase = "idle" => storage = Stored(JSONstringify(todos))

\* a Save has written a list of two items, one of them added in some session
C3_Witness ==
    /\ phase = "idle"
    /\ Len(todos.items) = 2
    /\ HasId(todos, randomUUID(1))
    /\ storage = Stored(JSONstringify(todos))

\* C4: Save(L) followed by Load() by a fresh page yields a list equal to L
\* by value, for every list L of Task items, the empty list included, and
\* the render of the loaded list does not fail.
C4_RoundTrip ==
    /\ phase = "commit" => (carried.valid /\ Plain(todos) = Plain(carried.list))
    /\ phase /= "error"

\* a list of two items has been saved and loaded again
C4_Witness ==
    /\ phase = "commit"
    /\ carried.valid
    /\ Len(carried.list.items) = 2
    /\ Len(todos.items) = 2
    /\ reads = 1

\* C5: the list hydrated after a reload equals the in-memory list of the
\* interactive session that was reloaded, and its render does not fail.
C5_ReloadKeepsList ==
    (carried.valid /\ phase \in {"commit", "error"}) =>
        (phase = "commit" /\ Plain(todos) = Plain(carried.list))

\* C6: the ids of the items of the in-memory list are pairwise distinct.
C6_UniqueIds ==
    CanIterate(todos) =>
        \A i, j \in 1..Len(todos.items) :
            i /= j => ~StrictEquals(IdOf(todos.items[i]), IdOf(todos.items[j]))

\* C7: while the add input is empty or only white space no step dispatches
\* ADD_TODO and no step makes the list longer; a step that dispatches ADD_TODO
\* has a non-empty trimmed input as its payload and as the text of the item it
\* appends; and no item carrying a generated id ever has an empty trimmed text.
C7_NoEmptyTextCreated ==
    /\ [][(Interactive /\ Trim(inputValue) = <<>>) =>
            /\ lastAction'.type /= "ADD_TODO"
            /\ CanIterate(todos') => Len(todos'.items) <= Len(todos.items)]_vars
    /\ [][(Interactive /\ lastAction'.type = "ADD_TODO") =>
            /\ Trim(inputValue) /= <<>>
            /\ lastAction'.payload = Str(Trim(inputValue))
            /\ Len(todos'.items) = Len(todos.items) + 1
            /\ Get(LastItem(todos'), K_text) = Str(Trim(inputValue))]_vars
    /\ [](CanIterate(todos) =>
            \A i \in 1..Len(todos.items) :
                (\E n \in 1..uuidCount : IdOf(todos.items[i]) = randomUUID(n)) =>
                    /\ Get(todos.items[i], K_text).tag = "string"
                    /\ Trim(Get(todos.items[i], K_text).s) /= <<>>)

\* handleAdd has just appended an item whose text is the trimmed input
C7_Witness ==
    /\ phase = "flush"
    /\ lastAction = AddTodo(Str(<<"b">>))
    /\ Get(LastItem(todos), K_text) = Str(<<"b">>)

\* C8: Toggle, Delete and Update-text with an id that no item of the list
\* has return a list equal to the list they were given (and do not throw).
C8_UnmatchedIdNoOp ==
    [][(/\ phase' = "applied"
        /\ lastAction'.type \in {"TOGGLE_TODO", "DELETE_TODO", "UPDATE_TODO"}
        /\ ~HasId(todos, PayloadId(lastAction'))) => todos' = todos]_vars

\* a Toggle whose id is in no item has been applied to a non-empty list
C8_Witness ==
    /\ phase = "applied"
    /\ lastAction.type = "TOGGLE_TODO"
    /\ todos.items /= <<>>
    /\ ~HasId(todos, lastAction.payload)

\* C9: Add(s) returns a list one longer, whose first items are the items of
\* the given list in the same order and whose last item has text s and
\* completed false.
C9_AddAppends ==
    [][(phase' = "applied" /\ lastAction'.type = "ADD_TODO") =>
          /\ todos'.tag = "array"
          /\ Len(todos'.items) = Len(todos.items) + 1
          /\ SubSeq(todos'.items, 1, Len(todos.items)) = todos.items
          /\ Get(LastItem(todos'), K_text) = lastAction'.payload
          /\ Get(LastItem(todos'), K_completed) = Bool(FALSE)]_vars

\* an Add has been applied to a list of three items, of which no two are
\* equal, so that any other order of them would show
C9_Witness ==
    /\ phase = "applied"
    /\ lastAction.type = "ADD_TODO"
    /\ Len(todos.items) = 4
    /\ \A i, j \in 1..3 : i /= j => todos.items[i] /= todos.items[j]
    /\ Get(LastItem(todos), K_text) = lastAction.payload

\* C10: Toggle(id) with id in the list flips completed of every item with
\* that id, leaving its id, text and createdAt, the other items and the order
\* unchanged; and from the empty list, Add, Add, Toggle(first item's id)
\* gives two items in insertion order, the first completed, the second not.
C10_ToggleFlipsOnlyCompleted ==
    /\ [][(/\ phase' = "applied"
           /\ lastAction'.type = "TOGGLE_TODO"
           /\ HasId(todos, lastAction'.payload)) =>
             /\ todos'.tag = "array"
             /\ Len(todos'.items) = Len(todos.items)
             /\ \A i \in 1..Len(todos.items) :
                   IF StrictEquals(IdOf(todos.items[i]), lastAction'.payload)
                   THEN /\ Get(todos'.items[i], K_completed)
                             = Bool(~Get(todos.items[i], K_completed).b)
                        /\ \A k \in {K_id, K_text, K_createdAt} :
                              Get(todos'.items[i], k) = Get(todos.items[i], k)
                        /\ Len(todos'.items[i].props) = Len(todos.items[i].props)
                   ELSE todos'.items[i] = todos.items[i]]_vars
    /\ []((TraceTypes = Scenario /\ lastAction = ToggleTodo(randomUUID(1))) =>
             /\ Len(todos.items) = 2
             /\ IdOf(todos.items[1]) = randomUUID(1)
             /\ IdOf(todos.items[2]) = randomUUID(2)
             /\ Get(todos.items[1], K_completed) = Bool(TRUE)
             /\ Get(todos.items[2], K_completed) = Bool(FALSE))

\* the scenario has run: two added items, the first toggled
C10_Witness ==
    /\ TraceTypes = Scenario
    /\ lastAction = ToggleTodo(randomUUID(1))
    /\ Get(todos.items[1], K_completed) = Bool(TRUE)

\* C11: Delete is idempotent: applying Delete(id) to the result of Delete(id)
\* gives that result again, whether or not the id was in the list.
C11_DeleteIdempotent ==
    [][(/\ phase = "applied"
        /\ lastAction.type = "DELETE_TODO"
        /\ phase' = "applied"
        /\ lastAction' = lastAction) => todos' = todos]_vars

\* an item was added, deleted, and the same Delete applied once more
C11_Witness ==
    /\ phase = "applied"
    /\ Len(trace) = 4
    /\ trace[2].type = "ADD_TODO"
    /\ trace[3] = DeleteTodo(randomUUID(1))
    /\ trace[4] = DeleteTodo(randomUUID(1))
    /\ lastAction = DeleteTodo(randomUUID(1))
    /\ todos = Arr(<<>>)

\* a step that is a call of handleUpdate that ran to its end
CommitStep == updateCall' = "done"

EditTextBlank == editText.tag /= "string" \/ Trim(editText.s) = <<>>

\* the properties of an item other than its text are the same in both
SameButText(old, new) ==
    /\ new.tag = "object"
    /\ \A k \in {K_id, K_completed, K_createdAt} : Get(new, k) = Get(old, k)
    /\ \A i \in 1..Len(new.props) :
          new.props[i].key /= K_text => Get(old, new.props[i].key) = new.props[i].val

\* C12: committing an edit whose text is empty or only whitespace dispatches
\* nothing and leaves the list unchanged; committing a non-empty text
\* dispatches Update-text with the trimmed text, which becomes the text of the
\* item in edit mode and changes nothing else of it nor any other item.
C12_CommitEditsOnlyText ==
    [][CommitStep =>
         IF EditTextBlank
         THEN lastAction' = NoAction /\ todos' = todos
         ELSE /\ lastAction'.type = "UPDATE_TODO"
              /\ todos'.tag = "array"
              /\ Len(todos'.items) = Len(todos.items)
              /\ \A i \in 1..Len(todos.items) :
                    IF InEditMode(editingId, todos.items[i])
                    THEN /\ Get(todos'.items[i], K_text) = Str(Trim(editText.s))
                         /\ SameButText(todos.items[i], todos'.items[i])
                    ELSE todos'.items[i] = todos.items[i]]_vars

\* the sequence without its element at position i
RemoveAt(seq, i) == SubSeq(seq, 1, i - 1) \o SubSeq(seq, i + 1, Len(seq))

\* C13: Delete(id) with id in the list removes exactly one item, the one with
\* that id: the result is one shorter and holds the other items, unchanged,
\* in their order.
C13_DeleteRemovesOne ==
    [][(/\ Interactive
        /\ lastAction'.type = "DELETE_TODO"
        /\ HasId(todos, lastAction'.payload)) =>
          /\ todos'.tag = "array"
          /\ Len(todos'.items) = Len(todos.items) - 1
          /\ \E i \in 1..Len(todos.items) :
                /\ StrictEquals(IdOf(todos.items[i]), lastAction'.payload)
                /\ todos'.items = RemoveAt(todos.items, i)]_vars

\* the ids crypto.randomUUID() has returned so far
IssuedIds == {randomUUID(n) : n \in 1..uuidCount}

SameIdentity(old, new) ==
    /\ IdOf(new) = IdOf(old)
    /\ Get(new, K_createdAt) = Get(old, K_createdAt)

\* C14: in a hydrated session no action changes the id or the createdAt of an
\* item that stays in the list (Add keeps the items before the new one,
\* Delete keeps a subsequence, every other step keeps each position), and a
\* created item gets an id that was never in a list before: the list never
\* holds an id that randomUUID has yet to return, and the new id is one it
\* had not returned, so no earlier list, of this session or a previous one,
\* held it, deleted or not.
C14_IdentityStable ==
    /\ [](todos.tag = "array" =>
             \A i \in 1..Len(todos.items) :
                \A n \in (uuidCount + 1)..MaxUuid : IdOf(todos.items[i]) /= randomUUID(n))
    /\ [][(Interactive /\ phase' /= "mount") =>
            /\ todos'.tag = "array"
            /\ CASE lastAction'.type = "ADD_TODO" ->
                      /\ Len(todos'.items) = Len(todos.items) + 1
                      /\ \A i \in 1..Len(todos.items) :
                            SameIdentity(todos.items[i], todos'.items[i])
                      /\ IdOf(LastItem(todos')) \notin IssuedIds
                      /\ IdOf(LastItem(todos')) \in IssuedIds'
                      /\ ~HasId(todos, IdOf(LastItem(todos')))
                 [] lastAction'.type = "DELETE_TODO" ->
                      \A j \in 1..Len(todos'.items) :
                         \E i \in j..Len(todos.items) : todos'.items[j] = todos.items[i]
                 [] OTHER ->
                      /\ Len(todos'.items) = Len(todos.items)
                      /\ \A i \in 1..Len(todos.items) :
                            SameIdentity(todos.items[i], todos'.items[i])]_vars

\* a stored item has kept its id and createdAt while an item was added and
\* deleted, and the item added after that deletion has another id
C14_Witness ==
    /\ phase = "flush"
    /\ lastAction.type = "ADD_TODO"
    /\ uuidCount = 2
    /\ Len(todos.items) = 2
    /\ SameIdentity(TodoA, todos.items[1])
    /\ IdOf(todos.items[2]) = randomUUID(2)

UserActionTypes == {"ADD_TODO", "TOGGLE_TODO", "DELETE_TODO", "UPDATE_TODO"}

\* C15: Replace-all (SET_TODOS) is applied only by the re-render that follows
\* the hydration effect, which is also the step that sets isMounted; isMounted
\* stays true until the page is reloaded, so it is applied at most once per
\* session; Add, Toggle, Delete and Update-text are applied only when
\* isMounted is true, so after it; and its result is exactly its payload,
\* whatever the list was.
C15_SetTodosOnceAtHydration ==
    /\ [][lastAction'.type = "SET_TODOS" =>
            /\ phase = "update"
            /\ reads = 1
            /\ ~isMounted /\ isMounted'
            /\ todos' = Held(lastAction'.payload)]_vars
    /\ [][(isMounted /\ phase' /= "mount") => isMounted']_vars
    /\ [][lastAction'.type \in UserActionTypes => (isMounted /\ phase = "idle")]_vars
    /\ [](\A list \in ReducerLists, payload \in ReducerPayloads :
            todoReducer(list, SetTodos(payload), Undefined, Undefined) = payload)

\* the hydration's re-render has applied SET_TODOS with a stored list of two items
C15_Witness ==
    /\ phase = "commit"
    /\ isMounted
    /\ lastAction.type = "SET_TODOS"
    /\ todos = Held(lastAction.payload)
    /\ Len(todos.items) = 2

\* a value of type Todo
IsTodo(t) ==
    /\ t.tag = "object"
    /\ Get(t, K_id).tag = "string"
    /\ Get(t, K_text).tag = "string"
    /\ Get(t, K_completed).tag = "boolean"
    /\ Get(t, K_createdAt).tag = "string"

IsTodoList(list) ==
    /\ list.tag = "array"
    /\ \A i \in 1..Len(list.items) : IsTodo(list.items[i])

\* C16: whatever the storage entry holds when a session starts, the list is
\* at all times a sequence of well-formed Tasks, no render throws and no
\* event handler throws.
C16_HydratedListWellFormed ==
    /\ IsTodoList(todos)
    /\ phase /= "error"
    /\ updateCall /= "threw"

EmptyListText == SaveText(Arr(<<>>))

\* C17: in a session whose hydration failed to deserialize the stored text,
\* the step that follows the hydration's commit, unless the page is reloaded
\* first, is the save effect writing the serialized empty list; no user event
\* comes before it, it is the first change of the entry, and once the session
\* is interactive the unparsable text is gone.
C17_CorruptOverwritten ==
    /\ [][(loadFailed /\ phase = "commit" /\ phase' /= "mount") =>
            (phase' = "idle" /\ storage' = Stored(EmptyListText))]_vars
    /\ [][(storage' /= storage /\ StoredTextUnparsable) =>
            (loadFailed /\ phase = "commit" /\ storage' = Stored(EmptyListText))]_vars
    /\ []((loadFailed /\ phase = "idle") => ~StoredTextUnparsable)

\* the first save of a session whose load failed has run, before any user
\* event: the entry now holds the serialized empty list
C17_Witness ==
    /\ loadFailed
    /\ phase = "idle"
    /\ inputValue = <<>>
    /\ uuidCount = 0
    /\ storage = Stored(EmptyListText)

\* C18: every list committed by a user's action (phase "flush": the reducer's
\* result is rendered, its save effect pending) is eventually in the storage
\* entry, written by the save effect, and it is that list which is written:
\* the step from such a commit leaves the list alone and stores its
\* serialization.  No later list can come in between.
C18_EveryCommitSaved ==
    /\ (phase = "flush") ~> (phase = "idle" /\ storage = Stored(SaveText(todos)))
    /\ [][phase = "flush" =>
            (todos' = todos /\ storage' = Stored(SaveText(todos)))]_vars

\* an edited text has been committed and written
C18_Witness ==
    /\ phase = "idle"
    /\ Len(todos.items) = 1
    /\ Get(todos.items[1], K_text) = Str(<<"b">>)
    /\ storage = Stored(SaveText(todos))

\* the stored text deserializes to a non-empty list of Tasks
StoredTodoList ==
    /\ SavedIsTruthy(storage)
    /\ JSONparse(storage.text).ok
    /\ IsTodoList(JSONparse(storage.text).val)
    /\ JSONparse(storage.text).val.items /= <<>>

\* C19: while isMounted is false no step changes the storage entry and no
\* user action is applied; the first save of a session, the step from the
\* hydration's commit, writes the hydrated list, which for a stored list of
\* Tasks is that list; so a stored list of Tasks is replaced by the empty
\* list only by the save that follows the user's Delete.
C19_StoredListNotLost ==
    /\ [][~isMounted =>
            (storage' = storage /\ lastAction'.type \notin UserActionTypes)]_vars
    /\ [][(phase = "commit" /\ phase' = "idle") =>
            /\ todos' = todos
            /\ storage' = Stored(SaveText(todos))
            /\ StoredTodoList => todos = Held(JSONparse(storage.text).val)]_vars
    /\ [][(storage' = Stored(EmptyListText) /\ storage' /= storage /\ StoredTodoList) =>
            (phase = "flush" /\ lastAction.type = "DELETE_TODO")]_vars

\* the save effect of the mount has run with isMounted false: the entry
\* still holds the stored list, whose SET_TODOS waits for the re-render
C19_Witness ==
    /\ phase = "update"
    /\ ~isMounted
    /\ todos = Arr(<<>>)
    /\ storage = Stored(SaveText(Arr(<<TodoA, TodoB>>)))
    /\ queue = <<SetTodos(JSONparse(storage.text).val)>>

\* a step that is a call of handleUpdate that threw
CommitThrew == updateCall' = "threw"

\* C20: every call of handleUpdate, dispatching or not, leaves editingId
\* null and no item in edit mode; with no truthy editingId no Update-text is
\* dispatched; and applying
\* a dispatched Update-text to its own result gives that result again.
C20_CommitEndsEditMode ==
    /\ [][(CommitStep \/ CommitThrew) =>
            (editingId' = Null /\ ~EditInputShown')]_vars
    /\ [][(Interactive /\ ~Truthy(editingId)) =>
            lastAction'.type /= "UPDATE_TODO"]_vars
    /\ [][(Interactive /\ lastAction'.type = "UPDATE_TODO") =>
            todoReducer(todos', lastAction', Undefined, Undefined) = todos']_vars

====
